---- MODULE Spec2Model ----
(***************************************************************************)
(* Model of src/src/06-promises-tasks.js: willYouMarryMe,                  *)
(* processAllPromises, getFastestPromise and chainPromises, run on the     *)
(* JavaScript job queue.                                                   *)
(*                                                                         *)
(* One run exercises one call of one of the functions (variable fn).  The  *)
(* input promises of the array ("tasks") settle on their own, before or    *)
(* after the call; a callback registered on a settled promise runs as a    *)
(* job of the FIFO microtask queue, one job at a time.                     *)
(***************************************************************************)
EXTENDS Integers, Sequences, FiniteSets, TLC

\* ------------------------------------------------------------------ bounds
MaxN == 3

\* the values the tasks given to chainPromises resolve with
Values == {1, 2, 3, 5, 10}
\* the values the tasks given to processAllPromises and getFastestPromise
\* resolve with
PlainValues == {1, 2, 3}
Functions == {"chainPromises", "processAllPromises", "getFastestPromise",
              "willYouMarryMe"}
\* the reducers passed as `action`: (a, b) => a + b, a - b, a * b
Actions == {"add", "sub", "mul"}
\* the arguments given to willYouMarryMe, by what JavaScript value they are
MarryInputs == {"true", "false", "undefined", "null", "0", "1", "'yes'", "''"}

\* A task is an input promise: the outcome it will settle with.  A task that
\* fails rejects with an Error of its own, identified by the task's index.
Tasks(vals) == [ok : {TRUE}, value : vals] \cup [ok : {FALSE}, value : {0}]

\* the arrays of at most n tasks
RECURSIVE SeqsUpTo(_, _)
SeqsUpTo(n, vals) ==
    IF n = 0 THEN {<< >>}
    ELSE LET S == SeqsUpTo(n - 1, vals)
         IN S \cup {Append(s, t) : s \in {q \in S : Len(q) = n - 1}, t \in Tasks(vals)}

\* ------------------------------------------------------------------- state
VARIABLES
    fn,                \* the function this run calls
    array,             \* the argument `array`: a sequence of tasks
    action,            \* the argument `action` of chainPromises
    isPositiveAnswer,  \* the argument of willYouMarryMe
    taskState,         \* state of each input promise
    settleOrder,       \* history: the tasks in the order they settled
    called,            \* the function has been called
    settledAtCall,     \* history: the tasks already settled at the call
    microtasks,        \* the job queue (FIFO)
    results,           \* chainPromises: const results = []
    promisesCompleted, \* chainPromises: let promisesCompleted = 0
    allProms,          \* chainPromises: the inner promise
    result,            \* the promise the called function returns
    calls,             \* history: counts of resolve/reject/action calls, and
                       \* the arguments of the calls of action
    observed,          \* history: tasks whose callback ran, in that order
    finalized,         \* history: how the allProms.then callback ended
    all,               \* processAllPromises: Promise.all's state
    race               \* getFastestPromise: Promise.race's promise

vars == << fn, array, action, isPositiveAnswer, taskState, settleOrder, called,
           settledAtCall, microtasks, results, promisesCompleted, allProms,
           result, calls, observed, finalized, all, race >>

N == Len(array)

\* ------------------------------------------------------- promise semantics
\* A promise: pending, or settled once and for all.  value is the
\* fulfilment value, reason identifies the rejection error.
Pending == [state |-> "pending", value |-> << >>, reason |-> << >>, settles |-> 0]

\* resolve(v) of a promise's executor: no effect on a settled promise
Resolve(p, v) ==
    IF p.state = "pending"
    THEN [p EXCEPT !.state = "fulfilled", !.value = <<v>>, !.settles = @ + 1]
    ELSE p

\* reject(e) of a promise's executor: no effect on a settled promise
Reject(p, e) ==
    IF p.state = "pending"
    THEN [p EXCEPT !.state = "rejected", !.reason = <<e>>, !.settles = @ + 1]
    ELSE p

Job(kind, i) == [kind |-> kind, task |-> i]

\* The jobs queued when callbacks are attached to the tasks in array order
\* (forEach): a task that is already settled has its callback queued at once.
RECURSIVE AttachJobs(_, _)
AttachJobs(i, st) ==
    IF i > Len(st) THEN << >>
    ELSE (IF st[i] = "pending" THEN << >> ELSE << Job("task", i) >>)
         \o AttachJobs(i + 1, st)

\* ------------------------------------------------------------------ reduce
Apply(op, a, b) ==
    CASE op = "add" -> a + b
      [] op = "sub" -> a - b
      [] op = "mul" -> a * b

\* Array.prototype.reduce(callback), from index k with accumulator acc: log is
\* the calls of the callback so far, each with the accumulator and the current
\* value it receives
RECURSIVE ReduceFrom(_, _, _, _, _)
ReduceFrom(op, values, k, acc, log) ==
    IF k > Len(values) THEN [threw |-> FALSE, value |-> acc, log |-> log]
    ELSE ReduceFrom(op, values, k + 1, Apply(op, acc, values[k]),
                    Append(log, [acc |-> acc, value |-> values[k]]))

\* Mutant: values.reduceRight(action), the fold taken from the last element
Reverse(values) == [k \in 1..Len(values) |-> values[Len(values) + 1 - k]]
ReduceRight(values, op) ==
    IF Len(values) = 0 THEN [threw |-> TRUE, value |-> 0, log |-> << >>]
    ELSE ReduceFrom(op, Reverse(values), 2, values[Len(values)], << >>)

\* Mutant: values.reduce(action, 0), an initial value given
ReduceSeeded(values, op) == ReduceFrom(op, values, 1, 0, << >>)

\* Mutant: a reduce that calls the callback once, with undefined operands,
\* on an empty array instead of throwing
ReduceUndefinedOperands(values, op) ==
    IF Len(values) = 0
    THEN [threw |-> FALSE, value |-> 0, log |-> << [acc |-> 0, value |-> 0] >>]
    ELSE ReduceFrom(op, values, 2, values[1], << >>)

\* values.reduce(action): an empty array with no initial value throws a
\* TypeError before the callback is called; otherwise the first element seeds
Reduce(values, op) ==
    IF Len(values) = 0 THEN [threw |-> TRUE, value |-> 0, log |-> << >>]
    ELSE ReduceFrom(op, values, 2, values[1], << >>)

\* -------------------------------------------------------------------- init
NoCalls == [res |-> 0, resolve |-> 0, reject |-> 0, action |-> 0, log |-> << >>]

Init ==
    /\ fn \in Functions
    /\ array \in (CASE fn = "willYouMarryMe" -> {<< >>}
                     [] fn = "chainPromises" -> SeqsUpTo(MaxN, Values)
                     [] OTHER -> SeqsUpTo(MaxN, PlainValues))
    /\ action \in (IF fn = "chainPromises" THEN Actions ELSE {"add"})
    /\ isPositiveAnswer \in (IF fn = "willYouMarryMe" THEN MarryInputs ELSE {"true"})
    /\ taskState = [i \in 1..Len(array) |-> "pending"]
    /\ settleOrder = << >>
    /\ called = FALSE
    /\ settledAtCall = {}
    /\ microtasks = << >>
    /\ results = << >>
    /\ promisesCompleted = 0
    /\ allProms = Pending
    /\ result = Pending
    /\ calls = NoCalls
    /\ observed = << >>
    /\ finalized = "no"
    /\ all = [values |-> << >>, remaining |-> 0, promise |-> Pending]
    /\ race = Pending

\* ------------------------------------------------------------- input tasks
\* An input promise settles (its timer fires, its I/O ends, ...).  If
\* callbacks are attached already, its reaction job is queued.
SettleTask(i) ==
    /\ taskState[i] = "pending"
    /\ taskState' = [taskState EXCEPT ![i] = IF array[i].ok THEN "fulfilled" ELSE "rejected"]
    /\ settleOrder' = Append(settleOrder, i)
    /\ microtasks' = IF called THEN Append(microtasks, Job("task", i)) ELSE microtasks
    /\ UNCHANGED << fn, array, action, isPositiveAnswer, called, settledAtCall,
                    results, promisesCompleted, allProms, result, calls,
                    observed, finalized, all, race >>

\* ----------------------------------------------------------- chainPromises
\* Mutant: after forEach the call also checks the counter, so that an empty
\* array resolves allProms at once
ChainPromisesChecksEmpty ==
    /\ fn = "chainPromises"
    /\ ~called
    /\ called' = TRUE
    /\ settledAtCall' = {i \in 1..N : taskState[i] # "pending"}
    /\ results' = << >>
    /\ promisesCompleted' = 0
    /\ allProms' = IF N = 0 THEN Resolve(allProms, << >>) ELSE allProms
    /\ calls' = IF N = 0 THEN [calls EXCEPT !.resolve = @ + 1] ELSE calls
    /\ microtasks' = microtasks \o AttachJobs(1, taskState)
           \o (IF N = 0 THEN << Job("allProms", 0) >> ELSE << >>)
    /\ UNCHANGED << fn, array, action, isPositiveAnswer, taskState, settleOrder,
                    result, observed, finalized, all, race >>

\* The call: both executors run, forEach attaches then/catch to every task,
\* allProms.then registers the finalization.
ChainPromises ==
    /\ fn = "chainPromises"
    /\ ~called
    /\ called' = TRUE
    /\ settledAtCall' = {i \in 1..N : taskState[i] # "pending"}
    /\ results' = << >>
    /\ promisesCompleted' = 0
    /\ microtasks' = microtasks \o AttachJobs(1, taskState)
    /\ UNCHANGED << fn, array, action, isPositiveAnswer, taskState, settleOrder,
                    allProms, result, calls, observed, finalized, all, race >>

\* Mutant: if (promisesCompleted >= array.length - 1) resolve(results)
CheckCompletedEarly(completed, values) ==
    IF completed >= N - 1
    THEN /\ allProms' = Resolve(allProms, values)
         /\ microtasks' = Tail(microtasks)
                \o (IF allProms.state = "pending" THEN << Job("allProms", 0) >> ELSE << >>)
         /\ calls' = [calls EXCEPT !.resolve = @ + 1]
    ELSE /\ microtasks' = Tail(microtasks)
         /\ UNCHANGED << allProms, calls >>

\* Mutant: if (promisesCompleted <= array.length) resolve(results)
CheckCompletedAlways(completed, values) ==
    IF completed <= N
    THEN /\ allProms' = Resolve(allProms, values)
         /\ microtasks' = Tail(microtasks)
                \o (IF allProms.state = "pending" THEN << Job("allProms", 0) >> ELSE << >>)
         /\ calls' = [calls EXCEPT !.resolve = @ + 1]
    ELSE /\ microtasks' = Tail(microtasks)
         /\ UNCHANGED << allProms, calls >>

\* if (promisesCompleted === array.length) resolve(results): the effect on
\* allProms, the queue and the call counts of a callback that brings the
\* counter to `completed`
CheckCompleted(completed, values) ==
    IF completed = N
    THEN /\ allProms' = Resolve(allProms, values)
         /\ microtasks' = Tail(microtasks)
                \o (IF allProms.state = "pending" THEN << Job("allProms", 0) >> ELSE << >>)
         /\ calls' = [calls EXCEPT !.resolve = @ + 1]
    ELSE /\ microtasks' = Tail(microtasks)
         /\ UNCHANGED << allProms, calls >>

\* Mutant: results.unshift(value) for results.push(value)
ChainOnFulfilledUnshift(i) ==
    /\ fn = "chainPromises"
    /\ microtasks # << >>
    /\ Head(microtasks) = Job("task", i)
    /\ taskState[i] = "fulfilled"
    /\ results' = << array[i].value >> \o results
    /\ promisesCompleted' = promisesCompleted + 1
    /\ CheckCompleted(promisesCompleted + 1, << array[i].value >> \o results)
    /\ observed' = Append(observed, i)
    /\ UNCHANGED << fn, array, action, isPositiveAnswer, taskState, settleOrder,
                    called, settledAtCall, result, finalized, all, race >>

\* Mutant: the then callback does not count the task
ChainOnFulfilledNoCount(i) ==
    /\ fn = "chainPromises"
    /\ microtasks # << >>
    /\ Head(microtasks) = Job("task", i)
    /\ taskState[i] = "fulfilled"
    /\ results' = Append(results, array[i].value)
    /\ promisesCompleted' = promisesCompleted
    /\ CheckCompleted(promisesCompleted, Append(results, array[i].value))
    /\ observed' = Append(observed, i)
    /\ UNCHANGED << fn, array, action, isPositiveAnswer, taskState, settleOrder,
                    called, settledAtCall, result, finalized, all, race >>

\* promis.then((value) => { ... })
ChainOnFulfilled(i) ==
    /\ fn = "chainPromises"
    /\ microtasks # << >>
    /\ Head(microtasks) = Job("task", i)
    /\ taskState[i] = "fulfilled"
    /\ results' = Append(results, array[i].value)
    /\ promisesCompleted' = promisesCompleted + 1
    /\ CheckCompleted(promisesCompleted + 1, Append(results, array[i].value))
    /\ observed' = Append(observed, i)
    /\ UNCHANGED << fn, array, action, isPositiveAnswer, taskState, settleOrder,
                    called, settledAtCall, result, finalized, all, race >>

\* Mutant: the catch callback pushes a placeholder for the failed task
ChainOnRejectedPlaceholder(i) ==
    /\ fn = "chainPromises"
    /\ microtasks # << >>
    /\ Head(microtasks) = Job("task", i)
    /\ taskState[i] = "rejected"
    /\ results' = Append(results, 0)
    /\ promisesCompleted' = promisesCompleted + 1
    /\ CheckCompleted(promisesCompleted + 1, Append(results, 0))
    /\ observed' = Append(observed, i)
    /\ UNCHANGED << fn, array, action, isPositiveAnswer, taskState, settleOrder,
                    called, settledAtCall, result, finalized, all, race >>

\* Mutant: the catch callback forwards the task's error to the returned promise
ChainOnRejectedPropagates(i) ==
    /\ fn = "chainPromises"
    /\ microtasks # << >>
    /\ Head(microtasks) = Job("task", i)
    /\ taskState[i] = "rejected"
    /\ promisesCompleted' = promisesCompleted + 1
    /\ CheckCompleted(promisesCompleted + 1, results)
    /\ result' = Reject(result, i)
    /\ observed' = Append(observed, i)
    /\ UNCHANGED << fn, array, action, isPositiveAnswer, taskState, settleOrder,
                    called, settledAtCall, results, finalized, all, race >>

\* promis.catch(() => { ... })
ChainOnRejected(i) ==
    /\ fn = "chainPromises"
    /\ microtasks # << >>
    /\ Head(microtasks) = Job("task", i)
    /\ taskState[i] = "rejected"
    /\ promisesCompleted' = promisesCompleted + 1
    /\ CheckCompleted(promisesCompleted + 1, results)
    /\ observed' = Append(observed, i)
    /\ UNCHANGED << fn, array, action, isPositiveAnswer, taskState, settleOrder,
                    called, settledAtCall, results, result, finalized, all, race >>

\* allProms.then((values) => { res(values.reduce(action)); })
\* A throw of reduce ends the callback before res is called.
ChainFinalize ==
    /\ fn = "chainPromises"
    /\ microtasks # << >>
    /\ Head(microtasks) = Job("allProms", 0)
    /\ microtasks' = Tail(microtasks)
    /\ LET r == Reduce(allProms.value[1], action)
       IN /\ calls' = [calls EXCEPT !.action = @ + Len(r.log),
                                    !.log = @ \o r.log,
                                    !.res = @ + (IF r.threw THEN 0 ELSE 1)]
          /\ result' = IF r.threw THEN result ELSE Resolve(result, r.value)
          /\ finalized' = IF r.threw THEN "threw" ELSE "returned"
    /\ UNCHANGED << fn, array, action, isPositiveAnswer, taskState, settleOrder,
                    called, settledAtCall, results, promisesCompleted, allProms,
                    observed, all, race >>

\* ---------------------------------------------------------- willYouMarryMe
Yes == "Hooray!!! She said \"Yes\"!"
No == "Oh no, she said \"No\"."
WrongParameter == "Wrong parameter is passed! Ask her again."

\* typeof x
TypeOf(x) ==
    CASE x \in {"true", "false"} -> "boolean"
      [] x = "undefined" -> "undefined"
      [] x = "null" -> "object"
      [] x \in {"0", "1"} -> "number"
      [] x \in {"'yes'", "''"} -> "string"

\* ToBoolean(x), the test of x ? a : b
Truthy(x) == x \in {"true", "1", "'yes'"}

\* const answer = isPositiveAnswer ? 'Hooray!!! She said "Yes"!' : 'Oh no, she said "No".'
Answer(x) == IF Truthy(x) THEN Yes ELSE No

\* Mutant: if (isPositiveAnswer == null) reject(new Error(...))
WrongTypeNullish(x) == x \in {"undefined", "null"}

\* if (typeof isPositiveAnswer !== 'boolean') reject(new Error(...))
WrongType(x) == TypeOf(x) # "boolean"

\* The call: the executor runs to its end; reject does not return from it,
\* so resolve(answer) is called in every case.
WillYouMarryMe ==
    /\ fn = "willYouMarryMe"
    /\ ~called
    /\ called' = TRUE
    /\ LET wrong == WrongType(isPositiveAnswer)
           p == IF wrong THEN Reject(Pending, WrongParameter) ELSE Pending
       IN /\ result' = Resolve(p, Answer(isPositiveAnswer))
          /\ calls' = [calls EXCEPT !.reject = @ + (IF wrong THEN 1 ELSE 0),
                                    !.resolve = @ + 1]
    /\ UNCHANGED << fn, array, action, isPositiveAnswer, taskState, settleOrder,
                    settledAtCall, microtasks, results, promisesCompleted,
                    allProms, observed, finalized, all, race >>

\* ------------------------------------------------------ processAllPromises
\* Settling Promise.all's promise queues the reaction registered on it by
\* all.then / all.catch.
AllSettled(values, remaining, p) ==
    /\ all' = [values |-> values, remaining |-> remaining, promise |-> p]
    /\ microtasks' = Tail(microtasks)
           \o (IF all.promise.state = "pending" /\ p.state # "pending"
               THEN << Job("all", 0) >> ELSE << >>)

\* The call: Promise.all(array) attaches to every element in array order and
\* resolves at once with [] for an empty array; then all.then and all.catch
\* register their callbacks.
ProcessAllPromises ==
    /\ fn = "processAllPromises"
    /\ ~called
    /\ called' = TRUE
    /\ settledAtCall' = {i \in 1..N : taskState[i] # "pending"}
    /\ all' = [values |-> [i \in 1..N |-> 0],
               remaining |-> N,
               promise |-> IF N = 0 THEN Resolve(Pending, << >>) ELSE Pending]
    /\ microtasks' = microtasks \o AttachJobs(1, taskState)
           \o (IF N = 0 THEN << Job("all", 0) >> ELSE << >>)
    /\ UNCHANGED << fn, array, action, isPositiveAnswer, taskState, settleOrder,
                    results, promisesCompleted, allProms, result, calls,
                    observed, finalized, race >>

\* Mutant: the values are collected in the order the elements fulfil
AllOnFulfilledPush(i) ==
    /\ fn = "processAllPromises"
    /\ microtasks # << >>
    /\ Head(microtasks) = Job("task", i)
    /\ taskState[i] = "fulfilled"
    /\ LET values == [all.values EXCEPT ![N - all.remaining + 1] = array[i].value]
           p == IF all.remaining = 1 THEN Resolve(all.promise, values) ELSE all.promise
       IN AllSettled(values, all.remaining - 1, p)
    /\ observed' = Append(observed, i)
    /\ UNCHANGED << fn, array, action, isPositiveAnswer, taskState, settleOrder,
                    called, settledAtCall, results, promisesCompleted, allProms,
                    result, calls, finalized, race >>

\* Promise.all's resolve-element function of element i
AllOnFulfilled(i) ==
    /\ fn = "processAllPromises"
    /\ microtasks # << >>
    /\ Head(microtasks) = Job("task", i)
    /\ taskState[i] = "fulfilled"
    /\ LET values == [all.values EXCEPT ![i] = array[i].value]
           p == IF all.remaining = 1 THEN Resolve(all.promise, values) ELSE all.promise
       IN AllSettled(values, all.remaining - 1, p)
    /\ observed' = Append(observed, i)
    /\ UNCHANGED << fn, array, action, isPositiveAnswer, taskState, settleOrder,
                    called, settledAtCall, results, promisesCompleted, allProms,
                    result, calls, finalized, race >>

\* Promise.all's reject function, called with the error of element i
AllOnRejected(i) ==
    /\ fn = "processAllPromises"
    /\ microtasks # << >>
    /\ Head(microtasks) = Job("task", i)
    /\ taskState[i] = "rejected"
    /\ AllSettled(all.values, all.remaining, Reject(all.promise, i))
    /\ observed' = Append(observed, i)
    /\ UNCHANGED << fn, array, action, isPositiveAnswer, taskState, settleOrder,
                    called, settledAtCall, results, promisesCompleted, allProms,
                    result, calls, finalized, race >>

\* all.then((values) => resolve(values))
AllThen ==
    /\ fn = "processAllPromises"
    /\ microtasks # << >>
    /\ Head(microtasks) = Job("all", 0)
    /\ all.promise.state = "fulfilled"
    /\ microtasks' = Tail(microtasks)
    /\ result' = Resolve(result, all.promise.value[1])
    /\ calls' = [calls EXCEPT !.resolve = @ + 1]
    /\ UNCHANGED << fn, array, action, isPositiveAnswer, taskState, settleOrder,
                    called, settledAtCall, results, promisesCompleted, allProms,
                    observed, finalized, all, race >>

\* all.catch((err) => reject(err))
AllCatch ==
    /\ fn = "processAllPromises"
    /\ microtasks # << >>
    /\ Head(microtasks) = Job("all", 0)
    /\ all.promise.state = "rejected"
    /\ microtasks' = Tail(microtasks)
    /\ result' = Reject(result, all.promise.reason[1])
    /\ calls' = [calls EXCEPT !.reject = @ + 1]
    /\ UNCHANGED << fn, array, action, isPositiveAnswer, taskState, settleOrder,
                    called, settledAtCall, results, promisesCompleted, allProms,
                    observed, finalized, all, race >>

\* ------------------------------------------------------- getFastestPromise
\* Settling Promise.race's promise queues the reaction registered on it by
\* race.then / race.catch.
RaceSettled(p) ==
    /\ race' = p
    /\ microtasks' = Tail(microtasks)
           \o (IF race.state = "pending" /\ p.state # "pending"
               THEN << Job("race", 0) >> ELSE << >>)

\* The call: Promise.race(array) attaches to every element in array order;
\* then race.then and race.catch register their callbacks.
GetFastestPromise ==
    /\ fn = "getFastestPromise"
    /\ ~called
    /\ called' = TRUE
    /\ settledAtCall' = {i \in 1..N : taskState[i] # "pending"}
    /\ race' = Pending
    /\ microtasks' = microtasks \o AttachJobs(1, taskState)
    /\ UNCHANGED << fn, array, action, isPositiveAnswer, taskState, settleOrder,
                    results, promisesCompleted, allProms, result, calls,
                    observed, finalized, all >>

\* Promise.race's resolve function, called with the value of element i
RaceOnFulfilled(i) ==
    /\ fn = "getFastestPromise"
    /\ microtasks # << >>
    /\ Head(microtasks) = Job("task", i)
    /\ taskState[i] = "fulfilled"
    /\ RaceSettled(Resolve(race, array[i].value))
    /\ observed' = Append(observed, i)
    /\ UNCHANGED << fn, array, action, isPositiveAnswer, taskState, settleOrder,
                    called, settledAtCall, results, promisesCompleted, allProms,
                    result, calls, finalized, all >>

\* Mutant: rejections of the elements are ignored (Promise.any for Promise.race)
RaceOnRejectedIgnored(i) ==
    /\ fn = "getFastestPromise"
    /\ microtasks # << >>
    /\ Head(microtasks) = Job("task", i)
    /\ taskState[i] = "rejected"
    /\ RaceSettled(race)
    /\ observed' = Append(observed, i)
    /\ UNCHANGED << fn, array, action, isPositiveAnswer, taskState, settleOrder,
                    called, settledAtCall, results, promisesCompleted, allProms,
                    result, calls, finalized, all >>

\* Promise.race's reject function, called with the error of element i
RaceOnRejected(i) ==
    /\ fn = "getFastestPromise"
    /\ microtasks # << >>
    /\ Head(microtasks) = Job("task", i)
    /\ taskState[i] = "rejected"
    /\ RaceSettled(Reject(race, i))
    /\ observed' = Append(observed, i)
    /\ UNCHANGED << fn, array, action, isPositiveAnswer, taskState, settleOrder,
                    called, settledAtCall, results, promisesCompleted, allProms,
                    result, calls, finalized, all >>

\* race.then((values) => resolve(values))
RaceThen ==
    /\ fn = "getFastestPromise"
    /\ microtasks # << >>
    /\ Head(microtasks) = Job("race", 0)
    /\ race.state = "fulfilled"
    /\ microtasks' = Tail(microtasks)
    /\ result' = Resolve(result, race.value[1])
    /\ calls' = [calls EXCEPT !.resolve = @ + 1]
    /\ UNCHANGED << fn, array, action, isPositiveAnswer, taskState, settleOrder,
                    called, settledAtCall, results, promisesCompleted, allProms,
                    observed, finalized, all, race >>

\* race.catch((err) => reject(err))
RaceCatch ==
    /\ fn = "getFastestPromise"
    /\ microtasks # << >>
    /\ Head(microtasks) = Job("race", 0)
    /\ race.state = "rejected"
    /\ microtasks' = Tail(microtasks)
    /\ result' = Reject(result, race.reason[1])
    /\ calls' = [calls EXCEPT !.reject = @ + 1]
    /\ UNCHANGED << fn, array, action, isPositiveAnswer, taskState, settleOrder,
                    called, settledAtCall, results, promisesCompleted, allProms,
                    observed, finalized, all, race >>

Next ==
    \/ \E i \in 1..N : SettleTask(i)
    \/ WillYouMarryMe
    \/ ProcessAllPromises
    \/ \E i \in 1..N : AllOnFulfilled(i)
    \/ \E i \in 1..N : AllOnRejected(i)
    \/ AllThen
    \/ AllCatch
    \/ GetFastestPromise
    \/ \E i \in 1..N : RaceOnFulfilled(i)
    \/ \E i \in 1..N : RaceOnRejected(i)
    \/ RaceThen
    \/ RaceCatch
    \/ ChainPromises
    \/ \E i \in 1..N : ChainOnFulfilled(i)
    \/ \E i \in 1..N : ChainOnRejected(i)
    \/ ChainFinalize

Spec == Init /\ [][Next]_vars

\* ------------------------------------------------- vocabulary of the claims
Chain == fn = "chainPromises"
Succeeded == {i \in 1..N : array[i].ok}
AllSucceed == \A i \in 1..N : array[i].ok
AllTasksSettled == \A i \in 1..N : taskState[i] # "pending"
\* nothing is left to run
Quiescent == called /\ AllTasksSettled /\ microtasks = << >>

InputOrder == [i \in 1..N |-> i]

\* The order in which the callbacks attached to the tasks run: the tasks
\* already settled at the call in array order, then the others as they settle.
CallbackOrder ==
    SelectSeq(InputOrder, LAMBDA i : i \in settledAtCall)
        \o SelectSeq(settleOrder, LAMBDA i : i \notin settledAtCall)

\* the values of the successful tasks of `order`, in that order
ValuesOf(order) ==
    LET ok == SelectSeq(order, LAMBDA i : array[i].ok)
    IN [k \in 1..Len(ok) |-> array[ok[k]].value]

\* op folded left over a non-empty sequence: ((s1 op s2) op s3) ...
RECURSIVE FoldLeft(_, _)
FoldLeft(op, s) ==
    IF Len(s) = 1 THEN s[1]
    ELSE Apply(op, FoldLeft(op, SubSeq(s, 1, Len(s) - 1)), s[Len(s)])

RECURSIVE SumSeq(_)
SumSeq(s) == IF s = << >> THEN 0 ELSE s[1] + SumSeq(Tail(s))

\* ---------------------------------------------------------------------- C1
\* C1 as stated: when all N >= 1 tasks succeed, the returned promise resolves
\* with action folded left over the values in the order the tasks settled.
C1_SettlementOrderFold ==
    (Chain /\ N >= 1 /\ AllSucceed /\ result.state = "fulfilled")
        => result.value = << FoldLeft(action, ValuesOf(settleOrder)) >>

\* C1 amended: when all N >= 1 tasks succeed, the returned promise resolves
\* with action folded left over the values in the order the success callbacks
\* run: the tasks already settled at the call in array order, then the others
\* in the order they settle.
C1_CallbackOrderFold ==
    (Chain /\ N >= 1 /\ AllSucceed /\ result.state = "fulfilled")
        => result.value = << FoldLeft(action, ValuesOf(CallbackOrder)) >>

C1_Witness ==
    /\ Chain /\ N = 3 /\ AllSucceed /\ action = "sub"
    /\ result.state = "fulfilled"
    /\ settledAtCall # {} /\ settledAtCall # 1..N
    /\ CallbackOrder # settleOrder /\ CallbackOrder # InputOrder
    /\ FoldLeft(action, ValuesOf(CallbackOrder)) # FoldLeft(action, ValuesOf(InputOrder))

\* ---------------------------------------------------------------------- C2
\* C2 as stated: when k of the N tasks succeed, 1 <= k < N, the returned
\* promise resolves with the fold over the k successful values in the order
\* they settled, and the failed tasks add no element to the folded sequence.
C2_PartialSettlementOrder ==
    (Chain /\ Succeeded # {} /\ ~AllSucceed /\ result.state = "fulfilled")
        => /\ result.value = << FoldLeft(action, ValuesOf(settleOrder)) >>
           /\ Len(allProms.value[1]) = Cardinality(Succeeded)

\* C2 amended: when k of the N tasks succeed, 1 <= k < N, the returned
\* promise resolves with the fold over the k successful values in the order
\* their success callbacks run (already settled at the call: array order;
\* then settlement order); the folded sequence has exactly k elements.
C2_PartialCallbackOrder ==
    (Chain /\ Succeeded # {} /\ ~AllSucceed /\ result.state = "fulfilled")
        => /\ result.value = << FoldLeft(action, ValuesOf(CallbackOrder)) >>
           /\ allProms.value = << ValuesOf(CallbackOrder) >>
           /\ Len(allProms.value[1]) = Cardinality(Succeeded)

\* [resolve(5), reject('boom'), resolve(10)] with (a, b) => a * b gives 50
C2_Witness ==
    /\ Chain /\ action = "mul"
    /\ array = << [ok |-> TRUE, value |-> 5], [ok |-> FALSE, value |-> 0],
                  [ok |-> TRUE, value |-> 10] >>
    /\ result.state = "fulfilled" /\ result.value = << 50 >>

\* ---------------------------------------------------------------------- C3
\* C3: the returned promise is settled only when all N tasks have settled,
\* never while a task is pending, and once settled it never changes; res is
\* called at most once.
C3_SettledOnlyAfterAll ==
    /\ [](Chain /\ result.state # "pending"
            => AllTasksSettled /\ promisesCompleted = N /\ calls.res = 1)
    /\ [][Chain /\ result.state # "pending" => result' = result]_vars

C3_Witness ==
    /\ Chain /\ N = 3 /\ result.state = "fulfilled"
    /\ Succeeded # {} /\ ~AllSucceed /\ array[settleOrder[1]].ok = FALSE

\* ---------------------------------------------------------------------- C4
\* C4: the returned promise of chainPromises is never rejected and no task's
\* error reaches it or the inner promise, whatever the outcomes.
C4_NeverRejected ==
    Chain => /\ result.state # "rejected" /\ result.reason = << >>
             /\ allProms.state # "rejected" /\ allProms.reason = << >>

C4_Witness ==
    /\ Chain /\ N = 3 /\ Succeeded = {} /\ Quiescent
    /\ promisesCompleted = N /\ result.state = "pending"

\* ---------------------------------------------------------------------- C5
\* C5: once all N >= 1 tasks have settled and every callback has run, the
\* returned promise is settled, and it was settled exactly once.
C5_SettlesOnce ==
    (Chain /\ N >= 1 /\ Quiescent) => result.state # "pending" /\ result.settles = 1

C7_SeedOnly ==
    (Chain /\ Cardinality(Succeeded) = 1)
        => LET v == array[CHOOSE i \in Succeeded : TRUE].value
           IN /\ calls.action = 0
              /\ result.state = "fulfilled" => result.value = << v >>
              /\ Quiescent => result.state = "fulfilled"

C7_Witness ==
    /\ Chain /\ N = 3 /\ Cardinality(Succeeded) = 1 /\ action = "sub"
    /\ result.state = "fulfilled" /\ finalized = "returned"

\* ---------------------------------------------------------------------- C8
\* C8 as stated: when all N >= 1 tasks fail, finalization calls action (with
\* undefined operands).
C8_ReducerInvokedOnEmpty ==
    (Chain /\ N >= 1 /\ Succeeded = {} /\ finalized # "no") => calls.action >= 1

\* C8 amended: when all N >= 1 tasks fail, finalization calls reduce on the
\* empty accumulator, which throws without calling action at all.
C8_ReduceThrowsOnEmpty ==
    (Chain /\ N >= 1 /\ Succeeded = {} /\ finalized # "no")
        => calls.action = 0 /\ finalized = "threw" /\ allProms.value = << << >> >>

C8_Witness ==
    Chain /\ N = 3 /\ Succeeded = {} /\ finalized = "threw"

\* ---------------------------------------------------------------------- C9
\* C9: willYouMarryMe(x) settles exactly once: resolved with the "Yes"
\* string for true, with the "No" string for false, rejected with the
\* "Wrong parameter" error for any other x, although resolve is still called.
C9_WillYouMarryMe ==
    (fn = "willYouMarryMe" /\ called)
        => /\ result.settles = 1
           /\ isPositiveAnswer = "true"
                => result.state = "fulfilled"
                   /\ result.value = << "Hooray!!! She said \"Yes\"!" >>
           /\ isPositiveAnswer = "false"
                => result.state = "fulfilled"
                   /\ result.value = << "Oh no, she said \"No\"." >>
           /\ isPositiveAnswer \notin {"true", "false"}
                => /\ result.state = "rejected" /\ result.value = << >>
                   /\ result.reason = << "Wrong parameter is passed! Ask her again." >>
                   /\ calls.reject = 1 /\ calls.resolve = 1

C9_Witness ==
    /\ fn = "willYouMarryMe" /\ called /\ isPositiveAnswer = "1"
    /\ result.state = "rejected" /\ calls.resolve = 1

\* --------------------------------------------------------------------- C10
FirstFailed(order) == Head(SelectSeq(order, LAMBDA i : ~array[i].ok))

\* what C10 says apart from which error a failure carries
C10_Common ==
    /\ result.settles <= 1
    /\ result.state = "fulfilled"
         => AllSucceed /\ result.value = << [i \in 1..N |-> array[i].value] >>
    /\ result.state = "rejected" => ~AllSucceed
    /\ (called /\ microtasks = << >>)
         => /\ AllTasksSettled /\ AllSucceed => result.state = "fulfilled"
            /\ (\E i \in 1..N : taskState[i] = "rejected") => result.state = "rejected"

\* C10 as stated: processAllPromises resolves with the N values in array
\* order when all tasks succeed, otherwise rejects with the error of the first
\* task to fail; it settles once.
C10_FirstToFail ==
    fn = "processAllPromises"
        => /\ C10_Common
           /\ result.state = "rejected" => result.reason = << FirstFailed(settleOrder) >>

\* C10 amended: ... otherwise rejects with the error of the first failed task
\* in callback order (the tasks already settled at the call in array order,
\* then the others in the order they settle).
C10_FirstObservedFailure ==
    fn = "processAllPromises"
        => /\ C10_Common
           /\ result.state = "rejected" => result.reason = << FirstFailed(CallbackOrder) >>

C10_Witness ==
    /\ fn = "processAllPromises" /\ N = 3 /\ AllSucceed
    /\ settleOrder = << 3, 1, 2 >> /\ settledAtCall = {3}
    /\ result.state = "fulfilled"

\* --------------------------------------------------------------------- C11
\* the settled promise that has the outcome of task i
OutcomeOf(i) ==
    IF array[i].ok
    THEN [state |-> "fulfilled", value |-> << array[i].value >>, reason |-> << >>,
          settles |-> 1]
    ELSE [state |-> "rejected", value |-> << >>, reason |-> << i >>, settles |-> 1]

\* what C11 says apart from which task wins: once the callbacks of a settled
\* task have run the returned promise is settled, and it was settled once
C11_Common ==
    /\ result.settles <= 1
    /\ result.state # "pending" => settleOrder # << >>
    /\ (called /\ microtasks = << >> /\ settleOrder # << >>) => result.state # "pending"

IsPrefix(s, t) == Len(s) <= Len(t) /\ s = SubSeq(t, 1, Len(s))

\* C12: results is always the values of the tasks whose success callback has
\* run, in the order the callbacks ran; it holds nothing of a failed task,
\* never more than N values, and it only grows at its end.
C12_ResultAccumulator ==
    /\ [](Chain => /\ results = ValuesOf(observed)
                   /\ Len(results) = Cardinality({k \in 1..Len(observed) : array[observed[k]].ok})
                   /\ Len(results) <= N
                   /\ IsPrefix(observed, CallbackOrder))
    /\ [][Chain => IsPrefix(results, results')]_vars

C12_Witness ==
    /\ Chain /\ N = 3 /\ Len(observed) = 3 /\ Len(results) = 2
    /\ ~array[observed[2]].ok /\ observed # InputOrder
    /\ results = << array[observed[1]].value, array[observed[3]].value >>
    /\ array[observed[1]].value # array[observed[3]].value

\* --------------------------------------------------------------------- C13
\* C13: promisesCompleted is the number of tasks whose settlement has been
\* observed, each observed task is settled and is observed once, the counter
\* stays within 0..N and equals length(results) + the observed failures; when
\* nothing is left to run every task has been observed.
C13_CompletionCounter ==
    Chain => /\ promisesCompleted = Len(observed)
             /\ \A k, l \in 1..Len(observed) : observed[k] = observed[l] => k = l
             /\ \A k \in 1..Len(observed) : taskState[observed[k]] # "pending"
             /\ promisesCompleted \in 0..N
             /\ promisesCompleted = Len(results)
                  + Cardinality({k \in 1..Len(observed) : ~array[observed[k]].ok})
             /\ Quiescent => {observed[k] : k \in 1..Len(observed)} = 1..N

C13_Witness ==
    /\ Chain /\ N = 3 /\ Quiescent /\ promisesCompleted = 3
    /\ Len(results) = 1 /\ array[observed[1]].ok

\* --------------------------------------------------------------------- C14
\* C14: for N >= 1, under every interleaving, the inner resolve(results) has
\* been called exactly when the counter has reached N, and it is called once:
\* the check is true in the one callback that brings the counter to N.
C14_FinalizeOnce ==
    (Chain /\ N >= 1)
        => /\ calls.resolve = (IF promisesCompleted = N THEN 1 ELSE 0)
           /\ allProms.settles = calls.resolve
           /\ allProms.state = "fulfilled" => allProms.value = << results >>

C14_Witness ==
    /\ Chain /\ N = 3 /\ Quiescent /\ calls.resolve = 1
    /\ settledAtCall = {2} /\ settleOrder = << 2, 3, 1 >>

\* --------------------------------------------------------------------- C15
\* the calls of action that a left fold over vs makes
FoldCalls(op, vs) ==
    [k \in 1..(Len(vs) - 1) |->
        [acc |-> FoldLeft(op, SubSeq(vs, 1, k)), value |-> vs[k + 1]]]

\* what C15 says about when and how often action is called
C15_Common ==
    /\ calls.action = Len(calls.log)
    /\ calls.action > 0
         => AllTasksSettled /\ promisesCompleted = N /\ finalized = "returned"
    /\ finalized = "no" => calls.action = 0
    /\ (Succeeded # {} /\ finalized # "no")
         => calls.action = Cardinality(Succeeded) - 1

\* C15 as stated: action is called only during finalization, after all tasks
\* have settled, k-1 times for k >= 1 successes, left to right over the
\* successful values in settlement order.
C15_CallsInSettlementOrder ==
    Chain => /\ C15_Common
             /\ (Succeeded # {} /\ finalized # "no")
                  => calls.log = FoldCalls(action, ValuesOf(settleOrder))

\* C15 amended: ... left to right over the successful values in callback
\* order (already settled at the call: array order; then settlement order).
C15_CallsInCallbackOrder ==
    Chain => /\ C15_Common
             /\ (Succeeded # {} /\ finalized # "no")
                  => calls.log = FoldCalls(action, ValuesOf(CallbackOrder))

C15_Witness ==
    /\ Chain /\ N = 3 /\ AllSucceed /\ action = "sub" /\ finalized = "returned"
    /\ settledAtCall = {} /\ settleOrder = << 3, 1, 2 >>
    /\ array[1].value = 1 /\ array[2].value = 2 /\ array[3].value = 10
    /\ calls.log = << [acc |-> 10, value |-> 1], [acc |-> 9, value |-> 2] >>

\* --------------------------------------------------------------------- C16
\* C16: a step that observes a task's failure adds 1 to promisesCompleted and
\* leaves results as it is; a step that observes a task's success appends
\* that task's value to results and adds 1 to promisesCompleted; neither
\* changes the input tasks, their states or the values already in results.
C16_ObserverFrame ==
    [][(Chain /\ observed' # observed)
        => LET i == observed'[Len(observed')]
           IN /\ observed' = Append(observed, i)
              /\ promisesCompleted' = promisesCompleted + 1
              /\ results' = IF array[i].ok THEN Append(results, array[i].value)
                            ELSE results
              /\ UNCHANGED << array, taskState, settleOrder, result >>]_vars

C16_Witness ==
    /\ Chain /\ N = 3 /\ Len(observed) = 2 /\ promisesCompleted = 2
    /\ array[observed[1]].ok /\ ~array[observed[2]].ok
    /\ results = << array[observed[1]].value >>
    /\ \E i \in 1..N : taskState[i] = "pending"

C18_EmptyStaysPending ==
    (Chain /\ N = 0)
        => /\ microtasks = << >> /\ observed = << >>
           /\ promisesCompleted = 0 /\ calls = NoCalls
           /\ allProms = Pending /\ result = Pending /\ finalized = "no"

C18_Witness ==
    Chain /\ N = 0 /\ called /\ promisesCompleted = N /\ result.state = "pending"

\* --------------------------------------------------------------------- C19
\* C19: with addition or multiplication, when at least one task succeeds the
\* result is the same in every run over the same tasks: it is the fold of the
\* successful values taken in array order, whatever order the tasks settle in.
C19_OrderIndependent ==
    (Chain /\ action \in {"add", "mul"} /\ Succeeded # {})
        => /\ result.state = "fulfilled"
                => result.value = << FoldLeft(action, ValuesOf(InputOrder)) >>
           /\ Quiescent => result.state = "fulfilled"

\* values [1, 2, 3] with (a, b) => a + b give 6, here settling as 3, 1, 2
C19_Witness ==
    /\ Chain /\ action = "add" /\ N = 3 /\ AllSucceed
    /\ array[1].value = 1 /\ array[2].value = 2 /\ array[3].value = 3
    /\ settledAtCall = {} /\ settleOrder = << 3, 1, 2 >>
    /\ results = << 3, 1, 2 >>
    /\ result.state = "fulfilled" /\ result.value = << 6 >>

====
